---- MODULE Spec2Model ----
(***************************************************************************)
(* Model of app/main.py (ice-routing): build_route, the single-vehicle     *)
(* route planner built on the OR-tools routing model.                      *)
(*                                                                         *)
(* State: the request's points with the raw/container split, the ranges    *)
(* of the Time cumul variables, the path the first-solution strategy is    *)
(* extending, the best route the local search retains, the Python error    *)
(* indicator a raising callback leaves behind, the `solution` closure      *)
(* variable, the result-walk cursor and the value build_route ends with.   *)
(*                                                                         *)
(* Coordinates are integers in units of 1/UnitsPerDegree degree. The      *)
(* order positions are ones where the float arithmetic of travel_time and  *)
(* distance_callback gives exactly the integer values computed here.       *)
(***************************************************************************)
EXTENDS Integers, Sequences, FiniteSets, TLC

\* ---------------------------------------------------------------- bounds
MaxOrders == 3
IsqrtMax == 400

\* ------------------------------------------------------ program constants
MAX_TOTAL_KG == 270
RAW_ICE_TIME_LIMIT == 50
RAW_THRESHOLD == 100
TIME_CAPACITY == 1440
TIME_SLACK == 1440
speed_kmh == 30
KM_PER_DEGREE == 100
MIN_PER_HOUR == 60
COST_SCALE == 1000
UnitsPerDegree == 200

\* ----------------------------------------------------------- input sets
IceSet == {20, 99, 100, 200}
WindowSet == {<<0, 120>>, <<60, 70>>, <<0, 20>>}
WarehousePos == <<0, 0>>
OrderPos == <<(<<5, 0>>), (<<0, 20>>), (<<30, 20>>), (<<12, 16>>), (<<20, 5>>)>>

VARIABLES pc, points, i, time_range, path, first, best, pending_error,
          solution, index, route, outcome

vars == <<pc, points, i, time_range, path, first, best, pending_error,
          solution, index, route, outcome>>

\* ------------------------------------------------------------- helpers
Max(a, b) == IF a >= b THEN a ELSE b
Min(a, b) == IF a <= b THEN a ELSE b

\* floor of the square root, as int(math.sqrt(..)) truncates it
Isqrt(n) == CHOOSE r \in 0..IsqrtMax : r * r <= n /\ n < (r + 1) * (r + 1)

SqDist(p1, p2) ==
    (p1.lat - p2.lat) * (p1.lat - p2.lat) + (p1.lon - p2.lon) * (p1.lon - p2.lon)

\* travel_time: int((sqrt(..) * 100 / 30) * 60), with coordinates in
\* 1/UnitsPerDegree degree: sqrt(d2) * (100 * 60) / (30 * UnitsPerDegree).
travel_time(p1, p2) ==
    (Isqrt(SqDist(p1, p2)) * KM_PER_DEGREE * MIN_PER_HOUR)
        \div (speed_kmh * UnitsPerDegree)

\* distance_callback: int(dist_matrix[a][b] * 1000), dist_matrix = distance()
distance_cost(p1, p2) ==
    Isqrt(SqDist(p1, p2) * (COST_SCALE \div UnitsPerDegree) * (COST_SCALE \div UnitsPerDegree))

\* ------------------------------------------------------- request, indices
Point(name, pos, w, kg) ==
    [name |-> name, lat |-> pos[1], lon |-> pos[2], time_start |-> w[1], time_end |-> w[2],
     ice_kg |-> kg, raw_ice_kg |-> 0, container_ice_kg |-> 0]

size == Cardinality(DOMAIN points)
NumOrders == size - 1
OrderNodes == 1..NumOrders

\* RoutingIndexManager(size, 1, 0): index k < size is node k, index `size`
\* is the vehicle's end at the depot.
StartIndex == 0
EndIndex == size
IndexToNode(ix) == IF ix = EndIndex THEN 0 ELSE ix
IsEnd(ix) == ix = EndIndex

RECURSIVE SumIce(_, _)
SumIce(nodes, raw) ==
    IF nodes = {} THEN 0
    ELSE LET n == CHOOSE x \in nodes : TRUE
             take == IF raw THEN points[n].ice_kg >= RAW_THRESHOLD
                     ELSE points[n].ice_kg < RAW_THRESHOLD
         IN (IF take THEN points[n].ice_kg ELSE 0) + SumIce(nodes \ {n}, raw)

Unassigned == [state |-> "unassigned", path |-> <<>>, Time |-> <<>>,
               RawIceTime |-> <<>>, RawLoad |-> <<>>]
NoSolution == [state |-> "none", path |-> <<>>, Time |-> <<>>,
               RawIceTime |-> <<>>, RawLoad |-> <<>>]

\* What build_route ends with: {"route": [...]}, {"error": message} or an
\* exception. No return statement of the source carries a stop or a
\* dimension: stop stays -1 (no stop) and dimension "none" in every outcome.
Outcome(kind, r, message) ==
    [kind |-> kind, route |-> r, message |-> message,
     stop |-> -1, dimension |-> "none"]

NoOutcome == Outcome("none", <<>>, "")

\* ------------------------------------------------------------ callbacks
time_callback(from_index, to_index) ==
    travel_time(points[IndexToNode(from_index)], points[IndexToNode(to_index)])

distance_callback(from_index, to_index) ==
    distance_cost(points[IndexToNode(from_index)], points[IndexToNode(to_index)])

raw_load_callback(from_index) == points[IndexToNode(from_index)].raw_ice_kg

PositionOf(p, ix) == CHOOSE k \in 1..Len(p) : p[k] = ix

\* raw_ice_time_callback reads the closure variable `solution`, which line
\* 177 binds only when SolveWithParameters has returned: while it is unbound
\* the read raises NameError. [raised, value] is what the call produces.
raw_ice_time_callback(from_index, to_index) ==
    IF solution.state # "assignment"
    THEN [raised |-> TRUE, value |-> 0]
    ELSE LET raw_load == solution.RawLoad[PositionOf(solution.path, from_index)]
         IN IF raw_load > 0
            THEN [raised |-> FALSE, value |-> time_callback(from_index, to_index)]
            ELSE [raised |-> FALSE, value |-> 0]

\* What the registered transit yields to the solver: the callback's value, or
\* the zero-initialised default of the binding when the callback raised (the
\* Python error indicator is then left set, see pending_error).
raw_time_transit(from_index, to_index) ==
    LET r == raw_ice_time_callback(from_index, to_index)
    IN IF r.raised THEN 0 ELSE r.value

\* --------------------------------------------------- dimension cumuls
\* Time: AddDimension(time_cb, 1440, 1440, False): cumul(next) = cumul +
\* transit + slack, each cumul in its range; the assignment holds every
\* cumul at its smallest feasible value.
\* (variant: the vehicle never waits for a window to open)
RECURSIVE TimeCumul_NoWait(_, _)
TimeCumul_NoWait(p, k) ==
    IF k = 1 THEN time_range[p[1]][1]
    ELSE TimeCumul_NoWait(p, k - 1) + time_callback(p[k - 1], p[k])

RECURSIVE TimeCumul(_, _)
TimeCumul(p, k) ==
    IF k = 1 THEN time_range[p[1]][1]
    ELSE Max(TimeCumul(p, k - 1) + time_callback(p[k - 1], p[k]),
             time_range[p[k]][1])

\* RawIceTime: AddDimension(raw_time_cb, 0, 50, True): no slack, start 0.
RECURSIVE RawIceTimeCumul(_, _)
RawIceTimeCumul(p, k) ==
    IF k = 1 THEN 0
    ELSE RawIceTimeCumul(p, k - 1) + raw_time_transit(p[k - 1], p[k])

\* RawLoad: AddDimension(raw_load_cb, 0, 270, True): no slack, start 0.
RECURSIVE RawLoadCumul(_, _)
RawLoadCumul(p, k) ==
    IF k = 1 THEN 0
    ELSE RawLoadCumul(p, k - 1) + raw_load_callback(p[k - 1])

TimeFeasible(p) ==
    \A k \in 1..Len(p) : /\ TimeCumul(p, k) <= time_range[p[k]][2]
                         /\ k > 1 =>
                              TimeCumul(p, k) - TimeCumul(p, k - 1)
                                - time_callback(p[k - 1], p[k]) <= TIME_SLACK

RawIceTimeFeasible(p) ==
    \A k \in 1..Len(p) : RawIceTimeCumul(p, k) \in 0..RAW_ICE_TIME_LIMIT

RawLoadFeasible(p) ==
    \A k \in 1..Len(p) : RawLoadCumul(p, k) \in 0..MAX_TOTAL_KG

\* every dimension's bounds hold along the (partial or complete) path p
DimensionsFeasible(p) ==
    TimeFeasible(p) /\ RawIceTimeFeasible(p) /\ RawLoadFeasible(p)

\* some arc of p had its RawIceTime transit evaluated by a raising callback
CallbackRaised(p) ==
    \E k \in 2..Len(p) : raw_ice_time_callback(p[k - 1], p[k]).raised

RECURSIVE PathCost(_, _)
PathCost(p, k) ==
    IF k <= 1 THEN 0 ELSE PathCost(p, k - 1) + distance_callback(p[k - 1], p[k])

Cost(p) == PathCost(p, Len(p))

Visited(p) == {p[k] : k \in 1..Len(p)}

\* complete routes: start, every order index once, end
Routes ==
    {p \in [1..(size + 1) -> 0..size] :
        /\ p[1] = StartIndex
        /\ p[size + 1] = EndIndex
        /\ \A a, b \in 1..(size + 1) : a # b => p[a] # p[b]}

FeasibleRoutes == {p \in Routes : DimensionsFeasible(p)}

Assignment(p) ==
    [state |-> "assignment", path |-> p,
     Time |-> [k \in 1..Len(p) |-> TimeCumul(p, k)],
     RawIceTime |-> [k \in 1..Len(p) |-> RawIceTimeCumul(p, k)],
     RawLoad |-> [k \in 1..Len(p) |-> RawLoadCumul(p, k)]]

\* ------------------------------------------------------------------ Init
Requests ==
    UNION {
        {[n \in 0..m |-> IF n = 0 THEN Point(0, WarehousePos, <<0, TIME_CAPACITY>>, 0)
                         ELSE Point(n, OrderPos[n], w[n], kg[n])] :
            w \in [1..m -> WindowSet], kg \in [1..m -> IceSet]} :
        m \in 1..MaxOrders}

Init ==
    /\ points \in Requests
    /\ pc = "split"
    /\ i = 1
    /\ time_range = [ix \in 0..(Cardinality(DOMAIN points)) |-> <<0, TIME_CAPACITY>>]
    /\ path = <<>>
    /\ first = <<>>
    /\ best = <<>>
    /\ pending_error = FALSE
    /\ solution = Unassigned
    /\ index = 0
    /\ route = <<>>
    /\ outcome = NoOutcome

\* --------------------------------------------------------------- actions
\* lines 49-67: the warehouse loads, every order unloads
SplitIce ==
    /\ pc = "split"
    /\ points' = [n \in DOMAIN points |->
          IF n = 0
          THEN [points[0] EXCEPT !.raw_ice_kg = SumIce(OrderNodes, TRUE),
                                 !.container_ice_kg = SumIce(OrderNodes, FALSE)]
          ELSE IF points[n].ice_kg >= RAW_THRESHOLD
               THEN [points[n] EXCEPT !.raw_ice_kg = 0 - points[n].ice_kg,
                                      !.container_ice_kg = 0]
               ELSE [points[n] EXCEPT !.raw_ice_kg = 0,
                                      !.container_ice_kg = 0 - points[n].ice_kg]]
    /\ pc' = "start_time"
    /\ UNCHANGED <<i, time_range, path, first, best, pending_error, solution,
                   index, route, outcome>>

\* lines 120-122: time_dimension.CumulVar(start_index).SetValue(0)
SetStartTime ==
    /\ pc = "start_time"
    /\ time_range' = [time_range EXCEPT ![StartIndex] = <<0, 0>>]
    /\ pc' = "windows"
    /\ i' = 1
    /\ UNCHANGED <<points, path, first, best, pending_error, solution,
                   index, route, outcome>>

\* (variant: the raw-ice clamp of lines 152-154 left out)
WindowEnd_NoClamp(point) == point.time_end

WindowEnd(point) ==
    IF point.ice_kg >= RAW_THRESHOLD
    THEN Min(point.time_end, RAW_ICE_TIME_LIMIT)
    ELSE point.time_end

\* lines 142-156, one iteration: SetRange(start, end) on the order's cumul
SetTimeWindow ==
    /\ pc = "windows"
    /\ i <= NumOrders
    /\ LET start == points[i].time_start
           end == WindowEnd(points[i])
           lo == Max(start, time_range[i][1])
           hi == Min(end, time_range[i][2])
       IN IF lo <= hi
          THEN /\ time_range' = [time_range EXCEPT ![i] = <<lo, hi>>]
               /\ i' = i + 1
               /\ UNCHANGED <<pc, outcome>>
          ELSE \* an empty range fails the solver outside any search: the
               \* call raises and build_route ends there
               /\ outcome' = Outcome("exception", <<>>, "CP Solver fail")
               /\ pc' = "done"
               /\ UNCHANGED <<time_range, i>>
    /\ UNCHANGED <<points, path, first, best, pending_error, solution,
                   index, route>>

\* line 177, entry: the search starts from the vehicle's start
StartSearch ==
    /\ pc = "windows"
    /\ i > NumOrders
    /\ path' = <<StartIndex>>
    /\ pc' = "first"
    /\ UNCHANGED <<points, i, time_range, first, best, pending_error, solution,
                   index, route, outcome>>

\* ---- line 177, SolveWithParameters: PATH_CHEAPEST_ARC first solution ----
Last(p) == p[Len(p)]

Unvisited(p) == (1..NumOrders) \ Visited(p)

\* the indices the path may be extended to: an unvisited order, or the
\* vehicle's end once every order is on the path
Candidates(p) == IF Unvisited(p) # {} THEN Unvisited(p) ELSE {EndIndex}

Extensions(p) == {ix \in Candidates(p) : DimensionsFeasible(Append(p, ix))}

Cheapest(p) ==
    {ix \in Extensions(p) :
        \A jx \in Extensions(p) :
            distance_callback(Last(p), ix) <= distance_callback(Last(p), jx)}

\* the solver evaluated the RawIceTime transit of an arc out of Last(p) and
\* the callback raised
ExtensionRaised(p) == \E ix \in Candidates(p) : CallbackRaised(Append(p, ix))

\* connect the last node of the path to the cheapest feasible next node
ExtendPath ==
    /\ pc = "first"
    /\ \E ix \in Cheapest(path) :
          /\ path' = Append(path, ix)
          /\ IF IsEnd(ix)
             THEN /\ first' = path'
                  /\ best' = path'
                  /\ pc' = "search"
             ELSE UNCHANGED <<first, best, pc>>
    /\ pending_error' = (pending_error \/ ExtensionRaised(path))
    /\ UNCHANGED <<points, i, time_range, solution, index, route, outcome>>

\* no feasible arc leaves the last node: no first solution, the search ends
FirstSolutionFails ==
    /\ pc = "first"
    /\ Extensions(path) = {}
    /\ pending_error' = (pending_error \/ ExtensionRaised(path))
    /\ pc' = "failed"
    /\ UNCHANGED <<points, i, time_range, path, first, best, solution, index,
                   route, outcome>>

\* GUIDED_LOCAL_SEARCH: the search moves to another feasible route; the best
\* route is replaced only by a strictly cheaper one
\* (variant: the best route is replaced by whatever the search moved to)
Improved_Always(r) == r

Improved(r) == IF Cost(r) < Cost(best) THEN r ELSE best

LocalSearchStep ==
    /\ pc = "search"
    /\ \E r \in FeasibleRoutes :
          /\ best' = Improved(r)
          /\ pending_error' = (pending_error \/ CallbackRaised(r))
    /\ UNCHANGED <<pc, points, i, time_range, path, first, solution, index,
                   route, outcome>>

\* time_limit.seconds = 5 is over, or the search failed: SolveWithParameters
\* returns the best assignment, or None; line 177 binds `solution`. Whether an
\* error indicator left set by a callback is raised on this return is up to
\* the interpreter and the binding, so SolveReturns and SolveRaises are both
\* enabled while pending_error holds.
SolveReturns ==
    /\ pc \in {"search", "failed"}
    /\ solution' = IF pc = "failed" THEN NoSolution ELSE Assignment(best)
    /\ pc' = "solved"
    /\ UNCHANGED <<points, i, time_range, path, first, best, pending_error,
                   index, route, outcome>>

\* a callback raised during the search and left the error indicator set: the
\* call of SolveWithParameters ends with that error and build_route with it
SolveRaises ==
    /\ pc \in {"search", "failed"}
    /\ pending_error
    /\ outcome' = Outcome("exception", <<>>, "NameError: solution")
    /\ pc' = "done"
    /\ UNCHANGED <<points, i, time_range, path, first, best, pending_error,
                   solution, index, route>>

\* lines 179-180
RouteNotFound ==
    /\ pc = "solved"
    /\ solution.state = "none"
    /\ outcome' = Outcome("error", <<>>, "Route not found")
    /\ pc' = "done"
    /\ UNCHANGED <<points, i, time_range, path, first, best, pending_error,
                   solution, index, route>>

\* lines 182-184
StartWalk ==
    /\ pc = "solved"
    /\ solution.state = "assignment"
    /\ index' = StartIndex
    /\ route' = <<>>
    /\ pc' = "walk"
    /\ UNCHANGED <<points, i, time_range, path, first, best, pending_error,
                   solution, outcome>>

\* solution.Value(var) of the returned assignment
SolutionTime(ix) == solution.Time[PositionOf(solution.path, ix)]
SolutionNext(ix) == solution.path[PositionOf(solution.path, ix) + 1]

Entry(name, arrival) == [point |-> name, arrival_minute |-> arrival]

\* lines 186-193, one iteration
WalkStep ==
    /\ pc = "walk"
    /\ ~IsEnd(index)
    /\ route' = Append(route, Entry(points[IndexToNode(index)].name,
                                    SolutionTime(index)))
    /\ index' = SolutionNext(index)
    /\ UNCHANGED <<pc, points, i, time_range, path, first, best, pending_error,
                   solution, outcome>>

\* (variant: the route is returned without the final warehouse entry)
ReturnRoute_NoAppend ==
    /\ pc = "walk"
    /\ IsEnd(index)
    /\ outcome' = Outcome("route", route, "")
    /\ pc' = "done"
    /\ UNCHANGED <<points, i, time_range, path, first, best, pending_error,
                   solution, index, route>>

\* lines 195-202: the return to the warehouse is appended, the route returned
ReturnRoute ==
    /\ pc = "walk"
    /\ IsEnd(index)
    /\ route' = Append(route, Entry(points[0].name, SolutionTime(index)))
    /\ outcome' = Outcome("route", route', "")
    /\ pc' = "done"
    /\ UNCHANGED <<points, i, time_range, path, first, best, pending_error,
                   solution, index>>

Next ==
    \/ SplitIce
    \/ SetStartTime
    \/ SetTimeWindow
    \/ StartSearch
    \/ ExtendPath
    \/ FirstSolutionFails
    \/ LocalSearchStep
    \/ SolveReturns
    \/ SolveRaises
    \/ RouteNotFound
    \/ StartWalk
    \/ WalkStep
    \/ ReturnRoute

Spec == Init /\ [][Next]_vars

\* ------------------------------------------------------------ properties
Returned == outcome.kind = "route"
ReturnedRoute == outcome.route
IsRaw(n) == points[n].ice_kg >= 100

RECURSIVE TotalIce(_)
TotalIce(nodes) ==
    IF nodes = {} THEN 0
    ELSE LET n == CHOOSE x \in nodes : TRUE
         IN points[n].ice_kg + TotalIce(nodes \ {n})

\* minutes driven from the warehouse up to entry k of a returned route
RECURSIVE RouteTravel(_, _)
RouteTravel(r, k) ==
    IF k <= 1 THEN 0
    ELSE RouteTravel(r, k - 1)
            + travel_time(points[r[k - 1].point], points[r[k].point])

C2_LoadCountsAllCargo ==
    pc = "search" =>
        /\ RawLoadCumul(best, 2) = TotalIce(OrderNodes)
        /\ TotalIce(OrderNodes) <= 270

\* C3: on every returned route, at every position where raw cargo is still
\* aboard on arrival, no more than 50 minutes have been driven since the
\* departure from the warehouse.
C3_RawReachedWithinLimit ==
    Returned =>
        \A k \in 1..(Len(ReturnedRoute) - 1) :
            (\E j \in k..(Len(ReturnedRoute) - 1) :
                 j >= 2 /\ IsRaw(ReturnedRoute[j].point))
              => RouteTravel(ReturnedRoute, k) <= 50

C3_Witness ==
    /\ Returned
    /\ \E k \in 3..(Len(ReturnedRoute) - 1) :
          /\ IsRaw(ReturnedRoute[k].point)
          /\ RouteTravel(ReturnedRoute, k) >= 25

EmptyWindowStops ==
    {n \in OrderNodes :
        \/ points[n].time_start > points[n].time_end
        \/ IsRaw(n) /\ points[n].time_start > Min(points[n].time_end, 50)}

\* C5: a request with a stop whose tightened window is empty ends, before
\* any search step, in an infeasibility outcome returned as data that names
\* the offending stop; no route is returned.
C5_StructurallyInfeasibleNamed ==
    (pc = "done" /\ EmptyWindowStops # {})
      => /\ outcome.kind = "error"
         /\ outcome.stop \in EmptyWindowStops
         /\ path = <<>>

\* C6: when no route respects the dimension bounds the outcome is an
\* infeasibility report returned as data naming the violated dimension (Load
\* when the cargo exceeds the capacity), and a returned route never violates
\* a bound.
C6_InfeasibilityReported ==
    /\ (pc = "done" /\ EmptyWindowStops = {} /\ TotalIce(OrderNodes) > 270)
         => /\ outcome.kind = "error"
            /\ outcome.dimension = "Load"
    /\ Returned => TotalIce(OrderNodes) <= 270

\* C7: every returned route starts and ends with the warehouse and holds
\* every order exactly once in between, and nothing else.
C7_RouteShape ==
    Returned =>
        LET r == ReturnedRoute
        IN /\ Len(r) = NumOrders + 2
           /\ r[1].point = points[0].name
           /\ r[Len(r)].point = points[0].name
           /\ \A n \in OrderNodes :
                 Cardinality({k \in 2..(Len(r) - 1) : r[k].point = points[n].name}) = 1
           /\ \A k \in 2..(Len(r) - 1) : r[k].point \in OrderNodes

C7_Witness == Returned /\ NumOrders >= 3 /\ ReturnedRoute[2].point # 1

\* C8: no evaluation of the decay-clock transit during solving reads the
\* not yet assigned solution, and no exception of that read leaves
\* build_route.
C8_TransitReadsDefinedLoad ==
    /\ ~pending_error
    /\ outcome.message # "NameError: solution"

\* C9: on every arc of a candidate route the decay clock grows by the arc's
\* travel duration if raw cargo is aboard after the origin stop's loading or
\* unloading, and by 0 otherwise.
C9_DecayAccruesWhileRawAboard ==
    pc \in {"first", "search"} =>
        \A k \in 1..(Len(path) - 1) :
            raw_time_transit(path[k], path[k + 1])
              = IF RawLoadCumul(path, k + 1) > 0
                THEN time_callback(path[k], path[k + 1])
                ELSE 0

====
